---- MODULE Spec2Model ----
(***************************************************************************)
(* Model of src/Beauty.py: three line-oriented interpreters (Anna = dialect *)
(* A, Alex = dialect B, Rosa = dialect C) that hand expressions and         *)
(* statements to the host's eval/exec with SAFE_GLOBALS as globals and the  *)
(* session's env dict as locals.                                            *)
(*                                                                          *)
(* A source line is a sequence of tokens; its text is the tokens joined by  *)
(* single blanks (Join).  The host evaluator is modelled on the fragment of *)
(* the host language the lines of the pools are written in: integers,       *)
(* names, + and -, `or`, calls with at most one argument, the parenthesised *)
(* assignment expression ( name := e ), list and string literals, calls of  *)
(* one or two arguments, and for exec the simple statements `name = e`,     *)
(* `globals ( ) [ "k" ] = e`, `pass`, expression statements joined by `;`,  *)
(* the one-line `def name ( [p] ) : return e` and the one-line              *)
(* `while e : simple ; ...`.                                                *)
(***************************************************************************)
EXTENDS Integers, Sequences, FiniteSets, TLC

VARIABLES
    dialect,   \* "A" (Anna), "B" (Alex) or "C" (Rosa): main()'s args.lang
    mode,      \* "batch" (Cls(source).run()) or "repl" (Cls.repl())
    lines,     \* self.lines of the batch instance
    pc,        \* index of the next line of self.lines in run()'s for loop
    status,    \* "running", "done" (run returned / repl loop left), "raised"
    raised,    \* the exception that left run() or repl(), "" when none
    env,       \* self.env of the instance constructed last
    replEnv,   \* the local variable env of Cls.repl()
    glob,      \* the module-level dict SAFE_GLOBALS
    heap,      \* the set objects allocated so far (address = index)
    out,       \* everything print() has written
    loop,      \* the `while` statement exec is running: where it is (at: "",
               \* "test" or "body") and its compiled test and suite
    inputs     \* the lines input() has returned so far

vars ==
    <<dialect, mode, lines, pc, status, raised, env, replEnv, glob, heap, out, loop, inputs>>

(***************************************************************************)
(* Bounds of the model.                                                     *)
(***************************************************************************)
MaxLines == 2      \* longest program drawn freely from a dialect's pool
MaxInputs == 2     \* lines a REPL session reads

(***************************************************************************)
(* Values.  One record shape for every value so that any two values can be  *)
(* compared: t is the host type, n an integer payload (or a heap address),  *)
(* s a string payload (or a parameter name), b the body of a function.      *)
(***************************************************************************)
IntV(n) == [t |-> "int", n |-> n, s |-> "", b |-> <<>>]
StrV(s) == [t |-> "str", n |-> 0, s |-> s, b |-> <<>>]
SetV(a) == [t |-> "set", n |-> a, s |-> "", b |-> <<>>]
NoneV == [t |-> "none", n |-> 0, s |-> "", b |-> <<>>]
BuiltinV(name) == [t |-> "builtin", n |-> 0, s |-> name, b |-> <<>>]
HostV(name) == [t |-> "host", n |-> 0, s |-> name, b |-> <<>>]
ModuleV(name) == [t |-> "module", n |-> 0, s |-> name, b |-> <<>>]
\* a function made by `def`: n parameters (0 or 1), parameter name s, and
\* b = <<the compiled body>>
FunV(np, param, body) == [t |-> "fun", n |-> np, s |-> param, b |-> body]
\* a list of integers: b holds the items
ListV(items) == [t |-> "list", n |-> 0, s |-> "", b |-> items]
\* the dict globals() returns: the globals eval/exec were given (SAFE_GLOBALS)
GlobalsV == [t |-> "globals", n |-> 0, s |-> "", b |-> <<>>]
\* what the REPL prints that is not a value of the program
InfoV(s) == [t |-> "info", n |-> 0, s |-> s, b |-> <<>>]
ErrorV(s) == [t |-> "error", n |-> 0, s |-> s, b |-> <<>>]

EmptyDict == [k \in {} |-> NoneV]
DictSet(d, k, v) == [j \in DOMAIN d \cup {k} |-> IF j = k THEN v ELSE d[j]]

(***************************************************************************)
(* Tokens.                                                                  *)
(***************************************************************************)
IntToks == {"0", "1", "2", "3", "5", "6"}
IntOf(tok) ==
    CASE tok = "0" -> 0 [] tok = "1" -> 1 [] tok = "2" -> 2
      [] tok = "3" -> 3 [] tok = "5" -> 5 [] tok = "6" -> 6

\* list literals and string literals, each one token
ListToks == {"[]", "[3]", "[1,2]", "[2,3]"}
ListOf(tok) ==
    CASE tok = "[]" -> <<>> [] tok = "[3]" -> <<3>>
      [] tok = "[1,2]" -> <<1, 2>> [] tok = "[2,3]" -> <<2, 3>>
StrToks == {"\"abs\""}
StrOf(tok) == CASE tok = "\"abs\"" -> "abs"

RegistryNames ==
    {"len", "range", "abs", "min", "max", "floor", "ceil", "sqrt", "exp", "log",
     "sin", "cos", "tan", "sigmoid", "mean", "dot", "rand", "math"}
\* names of the host's builtins module that the pools use
HostNames == {"exit", "open", "globals"}
\* the tokens that are identifiers of the host language
Idents ==
    {"x", "y", "z", "n", "f", "g", "facts", "nope", "set", "fact", "sky_is_blue",
     "not_a_real_expr"} \cup RegistryNames \cup HostNames

RECURSIVE Join(_)
\* " ".join(ts): the text of a token sequence
Join(ts) ==
    IF ts = <<>> THEN ""
    ELSE IF Len(ts) = 1 THEN ts[1]
    ELSE ts[1] \o " " \o Join(Tail(ts))

Drop(ts, k) == SubSeq(ts, k + 1, Len(ts))
Take(ts, k) == SubSeq(ts, 1, k)

(***************************************************************************)
(* compile(src, "<string>", "eval"): the token sequence as an expression.   *)
(*   or-expr := arith ( "or" arith )*                                       *)
(*   arith   := postfix ( ("+" | "-") postfix )*                            *)
(*   postfix := atom ( "(" [or-expr [ "," or-expr ]] ")" )*                 *)
(*   atom    := INT | LIST | STRING | NAME                                  *)
(*            | "(" NAME ":=" or-expr ")" | "(" or-expr ")"                 *)
(* A parse yields [ok, node, rest]; the whole text must be consumed.        *)
(***************************************************************************)
PFail == [ok |-> FALSE]
POk(node, rest) == [ok |-> TRUE, node |-> node, rest |-> rest]
Closes(p) == p.ok /\ p.rest # <<>> /\ p.rest[1] = ")"

RECURSIVE ParseOr(_), ParseOrTail(_, _), ParseArith(_), ParseArithTail(_, _)
RECURSIVE ParsePostfix(_), ParseTrailers(_, _), ParseAtom(_)

\* the ")" that ends "(" or-expr, "(" NAME ":=" or-expr, and f "(" or-expr
Paren(p) == IF Closes(p) THEN POk(p.node, Tail(p.rest)) ELSE PFail
WalrusParen(id, p) ==
    IF Closes(p) THEN POk([k |-> "walrus", id |-> id, e |-> p.node], Tail(p.rest))
    ELSE PFail
\* the ")" after the second argument of f "(" or-expr "," or-expr
CallParen2(f, a, q) ==
    IF Closes(q)
    THEN ParseTrailers([k |-> "call", f |-> f, args |-> <<a, q.node>>], Tail(q.rest))
    ELSE PFail
CallParen(f, p) ==
    IF Closes(p)
    THEN ParseTrailers([k |-> "call", f |-> f, args |-> <<p.node>>], Tail(p.rest))
    ELSE IF p.ok /\ p.rest # <<>> /\ p.rest[1] = ","
    THEN CallParen2(f, p.node, ParseOr(Tail(p.rest)))
    ELSE PFail

ParseAtom(ts) ==
    IF ts = <<>> THEN PFail
    ELSE IF ts[1] \in IntToks THEN POk([k |-> "int", n |-> IntOf(ts[1])], Tail(ts))
    ELSE IF ts[1] \in ListToks THEN POk([k |-> "list", items |-> ListOf(ts[1])], Tail(ts))
    ELSE IF ts[1] \in StrToks THEN POk([k |-> "str", s |-> StrOf(ts[1])], Tail(ts))
    ELSE IF ts[1] \in Idents THEN POk([k |-> "name", id |-> ts[1]], Tail(ts))
    ELSE IF ts[1] = "(" THEN
        IF Len(ts) >= 3 /\ ts[2] \in Idents /\ ts[3] = ":="
        THEN WalrusParen(ts[2], ParseOr(Drop(ts, 3)))
        ELSE Paren(ParseOr(Tail(ts)))
    ELSE PFail

ParseTrailers(node, ts) ==
    IF ts # <<>> /\ ts[1] = "(" THEN
        IF Len(ts) >= 2 /\ ts[2] = ")"
        THEN ParseTrailers([k |-> "call", f |-> node, args |-> <<>>], Drop(ts, 2))
        ELSE CallParen(node, ParseOr(Tail(ts)))
    ELSE POk(node, ts)

\* what follows a parsed operand
Trailers(p) == IF p.ok THEN ParseTrailers(p.node, p.rest) ELSE PFail
ArithTail(p) == IF p.ok THEN ParseArithTail(p.node, p.rest) ELSE PFail
OrTail(p) == IF p.ok THEN ParseOrTail(p.node, p.rest) ELSE PFail
ArithMore(op, left, p) ==
    IF p.ok THEN ParseArithTail([k |-> "bin", op |-> op, l |-> left, r |-> p.node], p.rest)
    ELSE PFail
OrMore(left, p) ==
    IF p.ok THEN ParseOrTail([k |-> "or", l |-> left, r |-> p.node], p.rest) ELSE PFail

ParsePostfix(ts) == Trailers(ParseAtom(ts))

ParseArithTail(left, ts) ==
    IF ts # <<>> /\ ts[1] \in {"+", "-"}
    THEN ArithMore(ts[1], left, ParsePostfix(Tail(ts)))
    ELSE POk(left, ts)

ParseArith(ts) == ArithTail(ParsePostfix(ts))

ParseOrTail(left, ts) ==
    IF ts # <<>> /\ ts[1] = "or" THEN OrMore(left, ParseArith(Tail(ts)))
    ELSE POk(left, ts)

ParseOr(ts) == OrTail(ParseArith(ts))

\* the whole text must be one expression
Whole(p) == IF p.ok /\ p.rest = <<>> THEN p ELSE PFail
CompileExpr(ts) == Whole(ParseOr(ts))

RECURSIVE WalrusTargets(_)
\* the names an expression assigns: inside a function body they are locals
WalrusTargets(node) ==
    CASE node.k = "walrus" -> {node.id} \cup WalrusTargets(node.e)
      [] node.k \in {"bin", "or"} -> WalrusTargets(node.l) \cup WalrusTargets(node.r)
      [] node.k = "call" ->
            WalrusTargets(node.f) \cup
            UNION {WalrusTargets(node.args[i]) : i \in 1..Len(node.args)}
      [] OTHER -> {}

(***************************************************************************)
(* The host evaluator.  A machine m is [env, glob, heap]: the locals dict   *)
(* handed to eval/exec, SAFE_GLOBALS, and the set objects.  A frame fr says *)
(* whether the code runs inside a function made by `def` (fn), and then its *)
(* local variables: module-level code reads a name in env, then in glob,    *)
(* then in the host's builtins; the body of a function reads its own locals *)
(* and otherwise glob and the builtins, because the function's globals are  *)
(* the dict exec was given as globals (SAFE_GLOBALS), never env.            *)
(* A result is [m, fr, x, v]: x is "" or the name of the exception raised.  *)
(***************************************************************************)
Machine(e, g, h) == [env |-> e, glob |-> g, heap |-> h]
TopFrame == [fn |-> FALSE, loc |-> EmptyDict, lnames |-> {}]
Res(m, fr, x, v) == [m |-> m, fr |-> fr, x |-> x, v |-> v]

\* the exceptions that are subclasses of Exception (SystemExit is not)
ExceptionKinds ==
    {"SyntaxError", "NameError", "UnboundLocalError", "TypeError", "AttributeError",
     "ValueError", "RuntimeError"}

Abs(n) == IF n < 0 THEN 0 - n ELSE n

\* LOAD_NAME at module level, LOAD_FAST / LOAD_GLOBAL inside a function
LookupName(id, m, fr) ==
    IF fr.fn /\ id \in fr.lnames THEN
        IF id \in DOMAIN fr.loc THEN Res(m, fr, "", fr.loc[id])
        ELSE Res(m, fr, "UnboundLocalError", NoneV)
    ELSE IF ~fr.fn /\ id \in DOMAIN m.env THEN Res(m, fr, "", m.env[id])
    ELSE IF id \in DOMAIN m.glob THEN Res(m, fr, "", m.glob[id])
    ELSE IF "__builtins__" \in DOMAIN m.glob /\ id \in HostNames
         THEN Res(m, fr, "", HostV(id))
    ELSE Res(m, fr, "NameError", NoneV)

\* bool(v)
Truthy(v, m) ==
    CASE v.t = "int" -> v.n # 0
      [] v.t = "none" -> FALSE
      [] v.t = "str" -> v.s # ""
      [] v.t = "set" -> m.heap[v.n] # <<>>
      [] v.t = "list" -> v.b # <<>>
      [] OTHER -> TRUE

\* a + b, a - b
BinOp(op, a, b, m, fr) ==
    IF a.t = "int" /\ b.t = "int" THEN
        Res(m, fr, "", IntV(IF op = "+" THEN a.n + b.n ELSE a.n - b.n))
    ELSE IF op = "+" /\ a.t = "list" /\ b.t = "list" THEN
        Res(m, fr, "", ListV(a.b \o b.b))
    ELSE IF op = "-" /\ a.t = "set" /\ b.t = "set" THEN
        LET InB(e) == \E i \in 1..Len(m.heap[b.n]) : m.heap[b.n][i] = e
            diff == SelectSeq(m.heap[a.n], LAMBDA e : ~InB(e))
        IN Res([m EXCEPT !.heap = Append(m.heap, diff)], fr, "", SetV(Len(m.heap) + 1))
    ELSE Res(m, fr, "TypeError", NoneV)

RECURSIVE SumProducts(_, _)
\* sum(x * y for x, y in zip(a, b)): zip stops at the end of the shorter list
SumProducts(a, b) ==
    IF a = <<>> \/ b = <<>> THEN 0
    ELSE a[1] * b[1] + SumProducts(Tail(a), Tail(b))

RECURSIVE Least(_), Greatest(_)
Least(q) ==
    IF Len(q) = 1 THEN q[1]
    ELSE IF q[1] <= Least(Tail(q)) THEN q[1] ELSE Least(Tail(q))
Greatest(q) ==
    IF Len(q) = 1 THEN q[1]
    ELSE IF q[1] >= Greatest(Tail(q)) THEN q[1] ELSE Greatest(Tail(q))

\* a float result, kept as the symbolic value "name applied to n"
FloatV(name, n) == [t |-> "float", n |-> n, s |-> name, b |-> <<>>]

\* min / max of two integers, or of one list
Extreme(name, args, m, fr) ==
    IF Len(args) = 2 /\ args[1].t = "int" /\ args[2].t = "int"
    THEN Res(m, fr, "", IntV(IF name = "min" THEN Least(<<args[1].n, args[2].n>>)
                                             ELSE Greatest(<<args[1].n, args[2].n>>)))
    ELSE IF Len(args) = 1 /\ args[1].t = "list"
    THEN IF args[1].b = <<>> THEN Res(m, fr, "ValueError", NoneV)
         ELSE Res(m, fr, "", IntV(IF name = "min" THEN Least(args[1].b)
                                                  ELSE Greatest(args[1].b)))
    ELSE Res(m, fr, "TypeError", NoneV)

\* a call of an entry of BASE_BUILTINS with the argument values args (the
\* float results are outside the fragment and kept symbolic)
CallBuiltin(name, args, m, fr) ==
    IF name = "rand" THEN
        IF args = <<>> THEN Res(m, fr, "", FloatV(name, 0))
        ELSE Res(m, fr, "TypeError", NoneV)
    ELSE IF name = "dot" THEN
        IF Len(args) = 2 /\ args[1].t = "list" /\ args[2].t = "list"
        THEN Res(m, fr, "", IntV(SumProducts(args[1].b, args[2].b)))
        ELSE Res(m, fr, "TypeError", NoneV)
    ELSE IF name \in {"min", "max"} THEN Extreme(name, args, m, fr)
    ELSE IF Len(args) # 1 THEN Res(m, fr, "TypeError", NoneV)
    ELSE IF name = "len" THEN
        IF args[1].t = "set" THEN Res(m, fr, "", IntV(Len(m.heap[args[1].n])))
        ELSE IF args[1].t = "list" THEN Res(m, fr, "", IntV(Len(args[1].b)))
        ELSE IF args[1] = StrV("abs") THEN Res(m, fr, "", IntV(3))
        ELSE Res(m, fr, "TypeError", NoneV)
    ELSE IF name = "mean" THEN
        IF args[1].t = "list" THEN Res(m, fr, "", FloatV(name, SumProducts(args[1].b, [i \in 1..Len(args[1].b) |-> 1])))
        ELSE Res(m, fr, "TypeError", NoneV)
    ELSE IF args[1].t # "int" THEN Res(m, fr, "TypeError", NoneV)
    ELSE IF name = "abs" THEN Res(m, fr, "", IntV(Abs(args[1].n)))
    ELSE IF name \in {"floor", "ceil"} THEN Res(m, fr, "", args[1])
    ELSE IF name = "range" THEN
        Res(m, fr, "", ListV([i \in 1..args[1].n |-> i - 1]))
    ELSE IF (name = "log" /\ args[1].n <= 0) \/ (name = "sqrt" /\ args[1].n < 0)
    THEN Res(m, fr, "ValueError", NoneV)
    ELSE Res(m, fr, "", FloatV(name, args[1].n))

\* a call of a name of the host's builtins module
CallHost(name, args, m, fr) ==
    IF name = "exit" THEN Res(m, fr, "SystemExit", NoneV)
    ELSE IF name = "globals" /\ args = <<>> THEN Res(m, fr, "", GlobalsV)
    ELSE Res(m, fr, "TypeError", NoneV)

RECURSIVE Eval(_, _, _), Call(_, _, _, _)

\* f(*args)
Call(f, args, m, fr) ==
    CASE f.t = "builtin" -> CallBuiltin(f.s, args, m, fr)
      [] f.t = "host" -> CallHost(f.s, args, m, fr)
      [] f.t = "fun" ->
            IF Len(args) # f.n THEN Res(m, fr, "TypeError", NoneV)
            ELSE LET body == f.b[1]
                     inner == [fn |-> TRUE,
                               loc |-> IF f.n = 0 THEN EmptyDict
                                       ELSE DictSet(EmptyDict, f.s, args[1]),
                               lnames |-> (IF f.n = 0 THEN {} ELSE {f.s})
                                          \cup WalrusTargets(body)]
                     r == Eval(body, m, inner)
                 IN Res(r.m, fr, r.x, r.v)
      [] OTHER -> Res(m, fr, "TypeError", NoneV)

\* evaluation of a compiled expression, left to right
Eval(node, m, fr) ==
    CASE node.k = "int" -> Res(m, fr, "", IntV(node.n))
      [] node.k = "list" -> Res(m, fr, "", ListV(node.items))
      [] node.k = "str" -> Res(m, fr, "", StrV(node.s))
      [] node.k = "name" -> LookupName(node.id, m, fr)
      [] node.k = "bin" ->
            LET a == Eval(node.l, m, fr) IN
            IF a.x # "" THEN a
            ELSE LET b == Eval(node.r, a.m, a.fr) IN
                 IF b.x # "" THEN b ELSE BinOp(node.op, a.v, b.v, b.m, b.fr)
      [] node.k = "or" ->
            LET a == Eval(node.l, m, fr) IN
            IF a.x # "" \/ Truthy(a.v, a.m) THEN a ELSE Eval(node.r, a.m, a.fr)
      [] node.k = "walrus" ->
            LET a == Eval(node.e, m, fr) IN
            IF a.x # "" THEN a
            ELSE IF a.fr.fn
                 THEN Res(a.m, [a.fr EXCEPT !.loc = DictSet(a.fr.loc, node.id, a.v)],
                          "", a.v)
                 ELSE Res([a.m EXCEPT !.env = DictSet(a.m.env, node.id, a.v)], a.fr,
                          "", a.v)
      [] node.k = "call" ->
            LET f == Eval(node.f, m, fr) IN
            IF f.x # "" THEN f
            ELSE IF node.args = <<>> THEN Call(f.v, <<>>, f.m, f.fr)
            ELSE LET a == Eval(node.args[1], f.m, f.fr) IN
                 IF a.x # "" THEN a
                 ELSE IF Len(node.args) = 1 THEN Call(f.v, <<a.v>>, a.m, a.fr)
                 ELSE LET b == Eval(node.args[2], a.m, a.fr) IN
                      IF b.x # "" THEN b ELSE Call(f.v, <<a.v, b.v>>, b.m, b.fr)

(***************************************************************************)
(* Common helpers (src/Beauty.py 42-67).                                    *)
(***************************************************************************)
\* make_env(extra): a NEW dict holding extra's items (the values are shared)
make_env(extra) == [k \in DOMAIN extra |-> extra[k]]

BASE_BUILTINS ==
    [k \in RegistryNames |-> IF k = "math" THEN ModuleV("math") ELSE BuiltinV(k)]

\* eval and exec put the host's builtins module into the globals dict they
\* are given, under "__builtins__", when it has no such key
WithHostBuiltins(g) ==
    IF "__builtins__" \in DOMAIN g THEN g
    ELSE DictSet(g, "__builtins__", ModuleV("builtins"))

\* what a function hands to its caller: [m, x, why, v]; why keeps the name of
\* the exception that eval_expr / exec_stmt wrapped into a RuntimeError
Outcome(m, x, why, v) == [m |-> m, x |-> x, why |-> why, v |-> v]

\* try: ... except Exception as e: raise RuntimeError(...)
Wrap(r) ==
    IF r.x \in ExceptionKinds THEN Outcome(r.m, "RuntimeError", r.x, NoneV)
    ELSE Outcome(r.m, r.x, r.x, r.v)

eval_expr(src, m) ==
    LET m1 == [m EXCEPT !.glob = WithHostBuiltins(m.glob)]
        c == CompileExpr(src)
    IN IF ~c.ok THEN Wrap(Res(m1, TopFrame, "SyntaxError", NoneV))
       ELSE Wrap(Eval(c.node, m1, TopFrame))

(***************************************************************************)
(* compile(src, "<string>", "exec") on one line:                            *)
(*   line   := "def" NAME "(" [NAME] ")" ":" "return" or-expr               *)
(*           | simple ( ";" simple )* [ ";" ]                               *)
(*           | "while" or-expr ":" simple ( ";" simple )* [ ";" ]           *)
(*   simple := NAME "=" or-expr | NAME "(" ")" "[" STRING "]" "=" or-expr   *)
(*           | "pass" | or-expr                                             *)
(* A `while` line is run by the actions WhileEnter, WhileTest and WhileBody *)
(* below; CompileStmt serves the lines that run in one step.                *)
(***************************************************************************)
RECURSIVE SplitSemis(_)
SplitSemis(ts) ==
    IF \E i \in 1..Len(ts) : ts[i] = ";"
    THEN LET i == CHOOSE j \in 1..Len(ts) :
                      ts[j] = ";" /\ \A h \in 1..(j - 1) : ts[h] # ";"
         IN IF i = Len(ts) THEN <<Take(ts, i - 1)>>
            ELSE <<Take(ts, i - 1)>> \o SplitSemis(Drop(ts, i))
    ELSE <<ts>>

CompileSimple(ts) ==
    IF ts = <<"pass">> THEN [ok |-> TRUE, node |-> [k |-> "pass"]]
    ELSE IF Len(ts) >= 8 /\ ts[1] \in Idents /\ ts[2] = "(" /\ ts[3] = ")" /\ ts[4] = "["
            /\ ts[5] \in StrToks /\ ts[6] = "]" /\ ts[7] = "="
    THEN LET c == CompileExpr(Drop(ts, 7)) IN
         IF c.ok THEN [ok |-> TRUE,
                       node |-> [k |-> "setitem", f |-> ts[1], key |-> StrOf(ts[5]),
                                 e |-> c.node]]
         ELSE PFail
    ELSE IF Len(ts) >= 3 /\ ts[1] \in Idents /\ ts[2] = "="
    THEN LET c == CompileExpr(Drop(ts, 2)) IN
         IF c.ok THEN [ok |-> TRUE, node |-> [k |-> "assign", id |-> ts[1], e |-> c.node]]
         ELSE PFail
    ELSE LET c == CompileExpr(ts) IN
         IF c.ok THEN [ok |-> TRUE, node |-> [k |-> "expr", e |-> c.node]] ELSE PFail

CompileDef(ts) ==
    IF Len(ts) >= 7 /\ ts[2] \in Idents /\ ts[3] = "(" /\ ts[4] = ")" /\ ts[5] = ":"
       /\ ts[6] = "return" /\ CompileExpr(Drop(ts, 6)).ok
    THEN [ok |-> TRUE,
          stmts |-> <<[k |-> "def", id |-> ts[2], fun |-> FunV(0, "", <<CompileExpr(Drop(ts, 6)).node>>)]>>]
    ELSE IF Len(ts) >= 8 /\ ts[2] \in Idents /\ ts[3] = "(" /\ ts[4] \in Idents
            /\ ts[5] = ")" /\ ts[6] = ":" /\ ts[7] = "return"
            /\ CompileExpr(Drop(ts, 7)).ok
    THEN [ok |-> TRUE,
          stmts |-> <<[k |-> "def", id |-> ts[2], fun |-> FunV(1, ts[4], <<CompileExpr(Drop(ts, 7)).node>>)]>>]
    ELSE PFail

CompileStmt(ts) ==
    IF ts # <<>> /\ ts[1] = "def" THEN CompileDef(ts)
    ELSE LET parts == SplitSemis(ts)
             cs == [i \in 1..Len(parts) |-> CompileSimple(parts[i])]
         IN IF \A i \in 1..Len(parts) : cs[i].ok
            THEN [ok |-> TRUE, stmts |-> [i \in 1..Len(parts) |-> cs[i].node]]
            ELSE PFail

RECURSIVE RunStmts(_, _)
\* after the right-hand side of `id = e` / after an expression statement
AfterAssign(id, rest, r) ==
    IF r.x # "" THEN r
    ELSE RunStmts(rest, [r.m EXCEPT !.env = DictSet(r.m.env, id, r.v)])
AfterExpr(rest, r) == IF r.x # "" THEN r ELSE RunStmts(rest, r.m)
\* `f ( ) [ key ] = e`: c is what the call f ( ) did, v the value of e; only
\* the dict of globals() takes the item
StoreItem(key, v, rest, c) ==
    IF c.x # "" THEN c
    ELSE IF c.v.t = "globals"
    THEN RunStmts(rest, [c.m EXCEPT !.glob = DictSet(c.m.glob, key, v)])
    ELSE Res(c.m, TopFrame, "TypeError", NoneV)
\* the right-hand side is evaluated first, then the target
AfterItem(st, rest, r) ==
    IF r.x # "" THEN r
    ELSE StoreItem(st.key, r.v, rest,
                   Eval([k |-> "call", f |-> [k |-> "name", id |-> st.f], args |-> <<>>],
                        r.m, TopFrame))

\* the statements of a compiled line, in order, as module-level code: a name
\* is stored into the locals dict (env); the first exception ends the run
RunStmts(stmts, m) ==
    IF stmts = <<>> THEN Res(m, TopFrame, "", NoneV)
    ELSE CASE stmts[1].k = "pass" -> RunStmts(Tail(stmts), m)
           [] stmts[1].k = "def" ->
                 RunStmts(Tail(stmts),
                          [m EXCEPT !.env = DictSet(m.env, stmts[1].id, stmts[1].fun)])
           [] stmts[1].k = "assign" ->
                 AfterAssign(stmts[1].id, Tail(stmts), Eval(stmts[1].e, m, TopFrame))
           [] stmts[1].k = "setitem" ->
                 AfterItem(stmts[1], Tail(stmts), Eval(stmts[1].e, m, TopFrame))
           [] stmts[1].k = "expr" ->
                 AfterExpr(Tail(stmts), Eval(stmts[1].e, m, TopFrame))

\* the one-line while statement: `while` test `:` suite
ColonAt(ts) == CHOOSE i \in 1..Len(ts) : ts[i] = ":" /\ \A h \in 1..(i - 1) : ts[h] # ":"
WhileTestOf(ts) == SubSeq(ts, 2, ColonAt(ts) - 1)
WhileSuiteOf(ts) == Drop(ts, ColonAt(ts))
IsWhile(ts) ==
    /\ ts # <<>> /\ ts[1] = "while" /\ \E i \in 1..Len(ts) : ts[i] = ":"
    /\ CompileExpr(WhileTestOf(ts)).ok
    /\ WhileSuiteOf(ts) # <<>> /\ WhileSuiteOf(ts)[1] \notin {"def", "while"}
    /\ CompileStmt(WhileSuiteOf(ts)).ok

exec_stmt(src, m) ==
    LET m1 == [m EXCEPT !.glob = WithHostBuiltins(m.glob)]
        c == CompileStmt(src)
    IN IF ~c.ok THEN Wrap(Res(m1, TopFrame, "SyntaxError", NoneV))
       ELSE Wrap(RunStmts(c.stmts, m1))

(***************************************************************************)
(* Text operations on a line.  Pieces(tok, sep) is tok.split(sep, 1) for a  *)
(* token that contains sep, and <<>> for one that does not.                 *)
(***************************************************************************)
Pieces(tok, sep) ==
    CASE sep = ":=" /\ tok = ":=" -> <<"", "">>
      [] sep = "=" /\ tok = "=" -> <<"", "">>
      [] sep = "=" /\ tok = ":=" -> <<":", "">>
      [] sep = "=" /\ tok = "==" -> <<"", "=">>
      [] OTHER -> <<>>

\* sep in text
Contains(ts, sep) == \E i \in 1..Len(ts) : Pieces(ts[i], sep) # <<>>

NonEmpty(tok) == IF tok = "" THEN <<>> ELSE <<tok>>

\* mutant of SplitFirst: text.rsplit(sep, 1), the split at the LAST sep
SplitLast(ts, sep) ==
    LET i == CHOOSE j \in 1..Len(ts) :
                 Pieces(ts[j], sep) # <<>>
                 /\ \A h \in (j + 1)..Len(ts) : Pieces(ts[h], sep) = <<>>
        pcs == Pieces(ts[i], sep)
    IN <<Take(ts, i - 1) \o NonEmpty(pcs[1]), NonEmpty(pcs[2]) \o Drop(ts, i)>>

\* [p.strip() for p in text.split(sep, 1)], for a text that contains sep
SplitFirst(ts, sep) ==
    LET i == CHOOSE j \in 1..Len(ts) :
                 Pieces(ts[j], sep) # <<>> /\ \A h \in 1..(j - 1) : Pieces(ts[h], sep) = <<>>
        pcs == Pieces(ts[i], sep)
    IN <<Take(ts, i - 1) \o NonEmpty(pcs[1]), NonEmpty(pcs[2]) \o Drop(ts, i)>>

\* text.startswith(word + " "), for a stripped text
StartsWithWord(ts, word) == Len(ts) >= 2 /\ ts[1] = word

\* not line or line.startswith("#")
Skipped(ts) == ts = <<>> \/ ts[1] = "#"

(***************************************************************************)
(* One iteration of the for loop of run(): [m, x, why, out], out being what *)
(* the iteration printed.                                                   *)
(***************************************************************************)
LineRes(m, x, why, o) == [m |-> m, x |-> x, why |-> why, out |-> o]

\* self.env[name] = val, once eval_expr has returned r
Store(name, r) ==
    IF r.x # "" THEN LineRes(r.m, r.x, r.why, <<>>)
    ELSE LineRes([r.m EXCEPT !.env = DictSet(r.m.env, name, r.v)], "", "", <<>>)

\* print(val), once eval_expr has returned r
Emit(r) ==
    IF r.x # "" THEN LineRes(r.m, r.x, r.why, <<>>) ELSE LineRes(r.m, "", "", <<r.v>>)

\* _ = eval_expr(...): the value is dropped, an exception is not
Discard(r) == LineRes(r.m, r.x, r.why, <<>>)

\* name, expr = ...; val = eval_expr(expr, self.env); self.env[name] = val
AssignLine(name, expr, m) == Store(name, eval_expr(expr, m))

\* val = eval_expr(expr, self.env); print(val)
PrintLine(expr, m) == Emit(eval_expr(expr, m))

\* Anna.run, lines 82-100
AnnaLine(line, m) ==
    IF Skipped(line) THEN LineRes(m, "", "", <<>>)
    ELSE IF Contains(line, ":=")
    THEN AssignLine(Join(SplitFirst(line, ":=")[1]), SplitFirst(line, ":=")[2], m)
    ELSE IF StartsWithWord(line, "print") THEN PrintLine(Tail(line), m)
    ELSE Discard(eval_expr(line, m))

\* except Exception as e_eval: raise e_stmt -- s is what exec_stmt raised, e
\* what eval_expr(line, self.env) did after it
Retried(s, e) ==
    IF e.x \in ExceptionKinds THEN LineRes(e.m, "RuntimeError", s.why, <<>>)
    ELSE LineRes(e.m, e.x, e.why, <<>>)

\* try: exec_stmt(line, self.env) except RuntimeError as e_stmt: try: eval_expr
Fallback(line, s) ==
    IF s.x # "RuntimeError" THEN LineRes(s.m, s.x, s.why, <<>>)
    ELSE Retried(s, eval_expr(line, s.m))

\* Alex.run, lines 167-197
AlexLine(line, m) ==
    IF Skipped(line) THEN LineRes(m, "", "", <<>>)
    ELSE IF StartsWithWord(line, "set") /\ Contains(line, "=")
    THEN AssignLine(Join(SplitFirst(Tail(line), "=")[1]),
                    SplitFirst(Tail(line), "=")[2], m)
    ELSE IF StartsWithWord(line, "print") THEN PrintLine(Tail(line), m)
    ELSE Fallback(line, exec_stmt(line, m))

\* mutant of SetAdd: list.append(v), which keeps duplicates
SetAppend(h, a, v) == [h EXCEPT ![a] = Append(h[a], v)]

\* set.add(v) on the set object at address a
SetAdd(h, a, v) ==
    IF \E i \in 1..Len(h[a]) : h[a][i] = v THEN h
    ELSE [h EXCEPT ![a] = Append(h[a], v)]

\* try: val = eval_expr(expr, self.env) except Exception: val = expr; print(val)
EmitOrRaw(expr, r) ==
    IF r.x \in ExceptionKinds THEN LineRes(r.m, "", "", <<StrV(Join(expr))>>)
    ELSE IF r.x # "" THEN LineRes(r.m, r.x, r.why, <<>>)
    ELSE LineRes(r.m, "", "", <<r.v>>)

\* try: _ = eval_expr(line, self.env) except Exception: pass
Suppress(r) ==
    IF r.x \in ExceptionKinds THEN LineRes(r.m, "", "", <<>>)
    ELSE LineRes(r.m, r.x, r.why, <<>>)

\* self.env["facts"].add(payload)
AddFact(payload, m) ==
    IF m.env["facts"].t = "set"
    THEN LineRes([m EXCEPT !.heap = SetAdd(m.heap, m.env["facts"].n, StrV(payload))],
                 "", "", <<>>)
    ELSE LineRes(m, "AttributeError", "AttributeError", <<>>)

\* Rosa.run, lines 262-287
RosaLine(line, m) ==
    IF Skipped(line) THEN LineRes(m, "", "", <<>>)
    ELSE IF StartsWithWord(line, "fact") THEN AddFact(Join(Tail(line)), m)
    ELSE IF Contains(line, ":=")
    THEN AssignLine(Join(SplitFirst(line, ":=")[1]), SplitFirst(line, ":=")[2], m)
    ELSE IF StartsWithWord(line, "print") THEN EmitOrRaw(Tail(line), eval_expr(Tail(line), m))
    ELSE Suppress(eval_expr(line, m))

\* the for loop of run() over lines, from machine m: stops at the first
\* exception; o collects what was printed
RECURSIVE RunAll(_, _, _, _)
StepLine(d, line, m) ==
    CASE d = "A" -> AnnaLine(line, m)
      [] d = "B" -> AlexLine(line, m)
      [] d = "C" -> RosaLine(line, m)

\* r is what the iteration on ls[1] did
RunRest(d, ls, o, r) ==
    IF r.x # "" THEN LineRes(r.m, r.x, r.why, o \o r.out)
    ELSE RunAll(d, Tail(ls), r.m, o \o r.out)

RunAll(d, ls, m, o) ==
    IF ls = <<>> THEN LineRes(m, "", "", o) ELSE RunRest(d, ls, o, StepLine(d, ls[1], m))

\* Cls.__init__(source, env): self.env = make_env(env); Rosa also does
\* self.env.setdefault("facts", set()).  Yields the new self.env and the heap.
NewInstance(d, extra, h) ==
    LET e == make_env(extra) IN
    IF d = "C" /\ "facts" \notin DOMAIN e
    THEN [env |-> DictSet(e, "facts", SetV(Len(h) + 1)), heap |-> Append(h, <<>>)]
    ELSE [env |-> e, heap |-> h]

(***************************************************************************)
(* The lines the model feeds to the interpreters.                           *)
(***************************************************************************)
PoolA ==
    { <<>>,
      <<"#", "x">>,
      <<"x", ":=", "5">>,
      <<"print", "x", "+", "1">>,
      <<"x", ":=", "x", "+", "1">>,
      <<"x", ":=", "nope">>,
      <<"x", ":=", "(", "y", ":=", "1", ")", "+", "1">>,
      <<"y", ":=", "(", "x", ":=", "1", ")", "+", "nope">>,
      <<"nope">>,
      <<"open">>,
      <<":=", "3">>,
      <<"print", "dot", "(", "[1,2]", ",", "[2,3]", ")">>,
      <<"print", "dot", "(", "[1,2]", ",", "[3]", ")">> }

PoolB ==
    { <<>>,
      <<"set", "x", "=", "5">>,
      <<"set", "x", "=", "x", "+", "1">>,
      <<"set", "x", "=", "nope">>,
      <<"print", "x", "+", "1">>,
      <<"x", "=", "1">>,
      <<"x", "=", "2">>,
      <<"def", "f", "(", ")", ":", "return", "x">>,
      <<"print", "f", "(", ")">>,
      <<"def", "g", "(", "n", ")", ":", "return", "n", "or", "g", "(", "1", ")">>,
      <<"print", "g", "(", "0", ")">>,
      <<"y", "=", "1", ";", "z", "=", "nope">>,
      <<"(", "x", ":=", "x", "-", "1", ")", "or", "nope">>,
      <<"set", "x", ":=", "5">>,
      <<"print", "(", "x", ":=", "5", ")">>,
      <<"globals", "(", ")", "[", "\"abs\"", "]", "=", "1">>,
      <<"print", "abs", "(", "1", ")">> }

PoolC ==
    { <<>>,
      <<"fact", "sky_is_blue">>,
      <<"fact", "x", ":=", "1">>,
      <<"x", ":=", "5">>,
      <<"x", ":=", "nope">>,
      <<"facts", ":=", "0">>,
      <<"print", "x", "+", "1">>,
      <<"print", "not_a_real_expr", "!!">>,
      <<"print", "exit", "(", ")">>,
      <<"nope">>,
      <<"exit", "(", ")">> }

Pool(d) == CASE d = "A" -> PoolA [] d = "B" -> PoolB [] d = "C" -> PoolC

\* programs longer than MaxLines that the claims name
Scenarios(d) ==
    CASE d = "A" -> {}
      [] d = "B" ->
            { << <<"def", "f", "(", ")", ":", "return", "x">>, <<"x", "=", "1">>,
                 <<"x", "=", "2">>, <<"print", "f", "(", ")">> >>,
              << <<"x", "=", "1">>, <<"(", "x", ":=", "x", "-", "1", ")", "or", "nope">>,
                 <<"print", "x", "+", "1">> >>,
              << <<"while", "1", ":", "pass">> >>,
              << <<"x", "=", "2">>, <<"while", "x", ":", "x", "=", "x", "-", "1">>,
                 <<"print", "x", "+", "1">> >>,
              << <<"while", "nope", ":", "pass">>, <<"x", "=", "1">> >> }
      [] d = "C" ->
            { << <<"fact", "sky_is_blue">>, <<"facts", ":=", "0">>,
                 <<"fact", "sky_is_blue">> >> }

Programs(d) ==
    (UNION { [1..k -> Pool(d)] : k \in 0..MaxLines }) \cup Scenarios(d)

\* the REPL's meta lines
MetaLines ==
    { <<":", "q">>, <<":", "reset">>, <<":", "env">>, <<":", "help">>,
      <<":", "examples">>, <<":", "facts">>, <<":", "load", "prog">>,
      <<":", "load", "missing">>, <<":", "bogus">>, <<":=", "3">>, <<":", "RESET">>,
      <<":">> }

\* open(arg).read().splitlines(): the files on disk
FileNames == {"prog"}
FileLines(d, name) ==
    CASE d = "A" -> << <<"x", ":=", "5">>, <<"print", "x", "+", "1">> >>
      [] d = "B" -> << <<"set", "x", "=", "5">>, <<"print", "x", "+", "1">> >>
      [] d = "C" -> << <<"fact", "sky_is_blue">>, <<"x", ":=", "5">> >>

Dialects == {"A", "B", "C"}

\* exec is not inside a `while` statement
NoLoop == [at |-> "", test |-> <<>>, suite |-> <<>>]

(***************************************************************************)
(* main(): Cls(f.read()).run() or Cls.repl().                               *)
(***************************************************************************)
InitBatch ==
    /\ mode = "batch"
    /\ dialect \in Dialects
    /\ lines \in Programs(dialect)
    /\ pc = 1
    /\ LET i == NewInstance(dialect, EmptyDict, <<>>) IN env = i.env /\ heap = i.heap
    /\ replEnv = EmptyDict
    /\ out = <<>>

\* repl() up to the first input(): the banner, env = make_env() and, for
\* Rosa, env.setdefault("facts", set())
InitRepl ==
    /\ mode = "repl"
    /\ dialect \in Dialects
    /\ lines = <<>>
    /\ pc = 1
    /\ env = EmptyDict
    /\ LET i == NewInstance(dialect, EmptyDict, <<>>) IN replEnv = i.env /\ heap = i.heap
    /\ out = <<InfoV("banner")>>

Init ==
    /\ InitBatch \/ InitRepl
    /\ status = "running"
    /\ raised = ""
    /\ glob = BASE_BUILTINS
    /\ loop = NoLoop
    /\ inputs = <<>>

(***************************************************************************)
(* Batch mode: one iteration of the for loop of Cls.run().                  *)
(***************************************************************************)
\* the exception as the caller sees it: RuntimeError(f"Eval error: {e}")
Raised(r) == IF r.x = "RuntimeError" THEN "RuntimeError: " \o r.why ELSE r.x

\* mutant of Iterated: the loop swallows the exception and goes on
IteratedOn(r) ==
    /\ env' = r.m.env
    /\ glob' = r.m.glob
    /\ heap' = r.m.heap
    /\ out' = out \o r.out
    /\ pc' = pc + 1
    /\ UNCHANGED <<status, raised>>

\* r is what the iteration did: an exception leaves run()
Iterated(r) ==
    /\ env' = r.m.env
    /\ glob' = r.m.glob
    /\ heap' = r.m.heap
    /\ out' = out \o r.out
    /\ IF r.x = ""
       THEN pc' = pc + 1 /\ UNCHANGED <<status, raised>>
       ELSE pc' = pc /\ status' = "raised" /\ raised' = Raised(r)

RunLine(d) ==
    /\ mode = "batch" /\ dialect = d /\ status = "running" /\ pc <= Len(lines)
    /\ loop.at = "" /\ ~(d = "B" /\ IsWhile(lines[pc]))
    /\ Iterated(StepLine(d, lines[pc], Machine(env, glob, heap)))
    /\ UNCHANGED <<dialect, mode, lines, loop, replEnv, inputs>>

AnnaRun == RunLine("A")
AlexRun == RunLine("B")
RosaRun == RunLine("C")

(***************************************************************************)
(* A `while` line of dialect B: exec_stmt hands it to exec, which runs the  *)
(* loop test and the loop suite in turn for as long as the test is true.    *)
(* One step is one evaluation of the test or one run of the suite.          *)
(***************************************************************************)
\* exec(src, SAFE_GLOBALS, env) compiles the line and reaches the loop test
WhileEnter ==
    /\ mode = "batch" /\ dialect = "B" /\ status = "running" /\ pc <= Len(lines)
    /\ loop.at = "" /\ IsWhile(lines[pc])
    /\ loop' = [at |-> "test",
                test |-> <<CompileExpr(WhileTestOf(lines[pc])).node>>,
                suite |-> CompileStmt(WhileSuiteOf(lines[pc])).stmts]
    /\ glob' = WithHostBuiltins(glob)
    /\ UNCHANGED <<dialect, mode, lines, pc, status, raised, env, replEnv, heap, out, inputs>>

\* r is what the test or the suite did and next where exec is then.  An
\* exception leaves exec; exec_stmt wraps it, the retry eval_expr(line) fails
\* (the line is no expression) and run raises the statement error
Looped(r, next) ==
    /\ env' = r.m.env /\ glob' = r.m.glob /\ heap' = r.m.heap
    /\ IF r.x = ""
       THEN /\ loop' = IF next = "" THEN NoLoop ELSE [loop EXCEPT !.at = next]
            /\ pc' = IF next = "" THEN pc + 1 ELSE pc
            /\ UNCHANGED <<status, raised>>
       ELSE loop' = NoLoop /\ pc' = pc /\ status' = "raised" /\ raised' = Raised(Wrap(r))
    /\ UNCHANGED <<dialect, mode, lines, replEnv, out, inputs>>

\* a false test ends the statement and the for loop of run() goes on
Tested(r) == Looped(r, IF r.x = "" /\ Truthy(r.v, r.m) THEN "body" ELSE "")

WhileTest ==
    /\ mode = "batch" /\ status = "running" /\ loop.at = "test"
    /\ Tested(Eval(loop.test[1], Machine(env, glob, heap), TopFrame))

WhileBody ==
    /\ mode = "batch" /\ status = "running" /\ loop.at = "body"
    /\ Looped(RunStmts(loop.suite, Machine(env, glob, heap)), "test")

\* return self.env
RunReturn ==
    /\ mode = "batch" /\ status = "running" /\ pc > Len(lines)
    /\ status' = "done"
    /\ UNCHANGED <<dialect, mode, lines, loop, pc, raised, env, replEnv, glob, heap, out, inputs>>

(***************************************************************************)
(* Cls.repl(): one iteration of `while True`, by the kind of line read.     *)
(***************************************************************************)
\* line = input(...).rstrip() returned a line
ReplRead(line) ==
    /\ mode = "repl" /\ status = "running" /\ Len(inputs) < MaxInputs
    /\ inputs' = Append(inputs, line)
    /\ UNCHANGED <<dialect, mode, lines, loop, pc>>

\* line.startswith(":")
StartsWithColon(line) == line # <<>> /\ line[1] \in {":", ":="}
\* tok[1:] for a token that starts with ":"
AfterColon(tok) == CASE tok = ":" -> "" [] tok = ":=" -> "="
\* tok.lower()
Lower(tok) == CASE tok = "RESET" -> "reset" [] tok = "Q" -> "q" [] OTHER -> tok
\* cmd = line[1:].strip().split(maxsplit=1)
MetaWords(line) == NonEmpty(AfterColon(line[1])) \o Tail(line)
\* c = cmd[0].lower(); arg = cmd[1] if len(cmd) > 1 else ""
MetaCmd(line) == Lower(MetaWords(line)[1])
MetaArg(line) == Join(Tail(MetaWords(line)))

\* the except Exception clauses of repl() catch these
Caught(x) == x \in ExceptionKinds

\* if not line: continue
ReplBlank ==
    /\ ReplRead(<<>>)
    /\ UNCHANGED <<status, raised, env, replEnv, glob, heap, out>>

\* except (KeyboardInterrupt, EOFError): print(); break
ReplEof ==
    /\ mode = "repl" /\ status = "running"
    /\ status' = "done"
    /\ out' = Append(out, InfoV(""))
    /\ UNCHANGED <<dialect, mode, lines, loop, pc, raised, env, replEnv, glob, heap, inputs>>

\* cmd[0] of an empty list: the IndexError leaves repl()
ReplNoCmd ==
    \E line \in MetaLines :
        /\ MetaWords(line) = <<>>
        /\ ReplRead(line)
        /\ status' = "raised" /\ raised' = "IndexError"
        /\ UNCHANGED <<env, replEnv, glob, heap, out>>

\* if c in ("q", "quit", "exit"): break
ReplQuit ==
    \E line \in MetaLines :
        /\ MetaWords(line) # <<>> /\ MetaCmd(line) \in {"q", "quit", "exit"}
        /\ ReplRead(line)
        /\ status' = "done"
        /\ UNCHANGED <<raised, env, replEnv, glob, heap, out>>

\* help, examples, env, facts (Rosa), and "Unknown command; :help"
ReplInfo ==
    \E line \in MetaLines :
        /\ MetaWords(line) # <<>>
        /\ LET c == MetaCmd(line) IN
           /\ c \notin {"q", "quit", "exit", "reset"}
           /\ ~(c = "load" /\ MetaArg(line) # "")
           /\ ReplRead(line)
           /\ out' = out \o
                (CASE c \in {"h", "help"} -> <<InfoV("Commands"), InfoV("syntax")>>
                   [] c = "examples" -> <<InfoV("Example")>>
                   [] c = "env" ->
                         <<[t |-> "dict", n |-> 0, s |-> "", b |-> <<replEnv>>]>>
                   [] c = "facts" /\ dialect = "C" ->
                         <<[t |-> "set", n |-> replEnv["facts"].n, s |-> "",
                            b |-> heap[replEnv["facts"].n]]>>
                   [] OTHER -> <<InfoV("Unknown command; :help")>>)
        /\ UNCHANGED <<status, raised, env, replEnv, glob, heap>>

\* try: Cls(source, env).run(); [print(done)] except Exception as e:
\* print(label, e) -- r is what run() did on the new instance
Tried(r, done, label) ==
    /\ env' = r.m.env /\ glob' = r.m.glob /\ heap' = r.m.heap
    /\ IF r.x = ""
       THEN out' = out \o r.out \o done /\ UNCHANGED <<status, raised>>
       ELSE IF Caught(r.x)
       THEN out' = out \o r.out \o <<ErrorV(label \o r.why)>> /\ UNCHANGED <<status, raised>>
       ELSE out' = out \o r.out /\ status' = "raised" /\ raised' = Raised(r)

\* Cls(source, env).run() on the lines ls
RunNew(d, ls, i) == RunAll(d, ls, Machine(i.env, glob, i.heap), <<>>)

\* if c == "load" and arg: with open(arg) as f: Cls(f.read(), env).run()
ReplLoad ==
    \E line \in MetaLines :
        /\ MetaWords(line) # <<>> /\ MetaCmd(line) = "load" /\ MetaArg(line) # ""
        /\ ReplRead(line)
        /\ IF MetaArg(line) \notin FileNames
           THEN /\ out' = Append(out, ErrorV("Load error: FileNotFoundError"))
                /\ UNCHANGED <<status, raised, env, glob, heap>>
           ELSE Tried(RunNew(dialect, FileLines(dialect, MetaArg(line)),
                             NewInstance(dialect, replEnv, heap)),
                      <<InfoV("Loaded")>>, "Load error: ")
        /\ UNCHANGED replEnv

\* if c == "reset": env = make_env() (Rosa: and env.setdefault("facts", set()))
ReplReset ==
    \E line \in MetaLines :
        /\ MetaWords(line) # <<>> /\ MetaCmd(line) = "reset"
        /\ ReplRead(line)
        /\ LET i == NewInstance(dialect, EmptyDict, heap) IN
           replEnv' = i.env /\ heap' = i.heap
        /\ out' = Append(out, InfoV("reset"))
        /\ UNCHANGED <<status, raised, env, glob>>

\* non-meta: try: Cls(line, env).run() except Exception as e: print("Error:", e)
ReplLine(d) ==
    \E line \in Pool(d) \ {<<>>} :
        /\ dialect = d
        /\ ~StartsWithColon(line)
        /\ ReplRead(line)
        /\ Tried(RunNew(d, <<line>>, NewInstance(d, replEnv, heap)), <<>>, "Error: ")
        /\ UNCHANGED replEnv

AnnaRepl == ReplLine("A")
AlexRepl == ReplLine("B")
RosaRepl == ReplLine("C")

Next ==
    \/ AnnaRun \/ AlexRun \/ RosaRun \/ RunReturn
    \/ WhileEnter \/ WhileTest \/ WhileBody
    \/ AnnaRepl \/ AlexRepl \/ RosaRepl
    \/ ReplBlank \/ ReplEof \/ ReplNoCmd \/ ReplQuit \/ ReplInfo \/ ReplLoad \/ ReplReset

Spec == Init /\ [][Next]_vars

\* exec keeps running a loop it is in: the loop test or the loop suite that
\* is next is executed
FairSpec == Spec /\ WF_vars(WhileTest) /\ WF_vars(WhileBody)

(***************************************************************************)
(* Vocabulary of the claims.                                                *)
(***************************************************************************)
Last(q) == q[Len(q)]

\* the machine a batch iteration starts from
Now == Machine(env, glob, heap)
\* the machine the instance a REPL line is run on starts from
Fresh == LET i == NewInstance(dialect, replEnv, heap) IN Machine(i.env, glob, i.heap)

\* this step is an iteration of run() in batch mode on the line lines[pc]
BatchStep ==
    /\ mode = "batch" /\ status = "running" /\ pc <= Len(lines)
    /\ loop.at = "" /\ ~(dialect = "B" /\ IsWhile(lines[pc]))
\* this step reads a non-meta program line in the REPL and runs it
ReplStep ==
    /\ mode = "repl" /\ status = "running" /\ Len(inputs') = Len(inputs) + 1
    /\ Last(inputs') # <<>> /\ ~StartsWithColon(Last(inputs'))

\* a well-formed assignment line: `name := expr` (A), `set name = expr` (B)
WellFormed(d, line) ==
    CASE d = "A" -> Len(line) >= 3 /\ line[1] \in Idents /\ line[2] = ":="
                    /\ CompileExpr(Drop(line, 2)).ok
      [] d = "B" -> Len(line) >= 4 /\ line[1] = "set" /\ line[2] \in Idents
                    /\ line[3] = "=" /\ CompileExpr(Drop(line, 3)).ok
      [] OTHER -> FALSE
TargetOf(d, line) == IF d = "A" THEN line[1] ELSE line[2]
ExprOf(d, line) == IF d = "A" THEN Drop(line, 2) ELSE Drop(line, 3)
\* the expression of the line evaluated on its own under machine m
ValueOf(d, line, m) ==
    Eval(CompileExpr(ExprOf(d, line)).node,
         [m EXCEPT !.glob = WithHostBuiltins(m.glob)], TopFrame)

\* C1: in the REPL of dialect A, after the inputs `x := 5` and then
\* `print x + 1` the second input has emitted 6 (the binding of the first
\* line is visible to the second).
C1_ReplBindingPersists ==
    (mode = "repl" /\ dialect = "A" /\ status = "running"
     /\ inputs = << <<"x", ":=", "5">>, <<"print", "x", "+", "1">> >>)
        => out = <<InfoV("banner"), IntV(6)>>

\* C2: a well-formed assignment line of dialect A or B whose expression
\* evaluates to a value v under the environment as it is before the line
\* leaves the environment binding the name to v (batch iteration or REPL line).
AssignBinds(d, line, m) ==
    (WellFormed(d, line) /\ ValueOf(d, line, m).x = "")
        => /\ TargetOf(d, line) \in DOMAIN env'
           /\ env'[TargetOf(d, line)] = ValueOf(d, line, m).v
           /\ status' = "running"
C2_AssignmentBindsValue ==
    [][/\ BatchStep => AssignBinds(dialect, lines[pc], Now)
       /\ ReplStep => AssignBinds(dialect, Last(inputs'), Fresh)]_vars

C2_Witness ==
    /\ mode = "batch" /\ dialect = "A" /\ pc = 3
    /\ lines = << <<"x", ":=", "5">>, <<"x", ":=", "x", "+", "1">> >>
    /\ env = DictSet(EmptyDict, "x", IntV(6))

\* C3: in dialect B, after `def f(): return x`, `x = 1`, `x = 2`, the call
\* f() returns 2: the function sees the current value of a variable of the
\* environment it was defined in.
C3_ClosureSeesEnvironment ==
    (mode = "batch" /\ dialect = "B" /\ status # "running"
     /\ lines = << <<"def", "f", "(", ")", ":", "return", "x">>, <<"x", "=", "1">>,
                   <<"x", "=", "2">>, <<"print", "f", "(", ")">> >>)
        => (status = "done" /\ out = <<IntV(2)>>)

\* C4: in dialect B a function defined with def can call itself: with
\* `def g(n): return n or g(1)` the call g(0) reaches g again and yields 1.
C4_RecursiveCallResolves ==
    (mode = "batch" /\ dialect = "B" /\ status # "running"
     /\ lines = << <<"def", "g", "(", "n", ")", ":", "return", "n", "or", "g", "(", "1", ")">>,
                   <<"print", "g", "(", "0", ")">> >>)
        => (status = "done" /\ out = <<IntV(1)>>)

\* C5: when an interactive line fails, the environment the line was applied
\* to (the env of the instance that ran it) has exactly the bindings it had
\* before the line.
C5_FailedLineLeavesEnvironment ==
    [][(ReplStep /\ StepLine(dialect, Last(inputs'), Fresh).x # "")
          => env' = Fresh.env]_vars

\* C6: in batch mode of dialects A and B, run stops at the first line whose
\* processing fails: the error reaches the caller, and from then on no line
\* is evaluated, no name is bound and nothing is emitted.
C6_BatchStopsAtFirstFailure ==
    [][/\ (BatchStep /\ dialect \in {"A", "B"}
           /\ StepLine(dialect, lines[pc], Now).x # "")
              => (status' = "raised" /\ raised' # "" /\ pc' = pc)
       /\ (mode = "batch" /\ dialect \in {"A", "B"} /\ status = "raised")
              => UNCHANGED <<env, out, pc, status, raised>>]_vars

C6_Witness ==
    /\ mode = "batch" /\ dialect = "A" /\ status = "raised" /\ pc = 1
    /\ lines = << <<"nope">>, <<"x", ":=", "5">> >>
    /\ raised = "RuntimeError: NameError"
    /\ env = EmptyDict /\ out = <<>>

\* C7: in dialect C a `print expr` line and a bare-expression line never make
\* run raise: when run has raised, the line it raised on is a `fact` line or
\* an assignment line.
C7_PrintAndBareNeverRaise ==
    (mode = "batch" /\ dialect = "C" /\ status = "raised")
        => (StartsWithWord(lines[pc], "fact") \/ Contains(lines[pc], ":="))

\* the line falls to the last rule of dialect B (exec, then eval)
Otherwise(line) ==
    /\ ~Skipped(line)
    /\ ~(StartsWithWord(line, "set") /\ Contains(line, "="))
    /\ ~StartsWithWord(line, "print")
\* an error occurs while the line is processed
ErrorOccurs(d, line, m) ==
    \/ StepLine(d, line, m).x # ""
    \/ d = "B" /\ Otherwise(line) /\ exec_stmt(line, m).x # ""

\* C8: in dialects A and B every error that occurs while a line is processed
\* reaches the caller of run: run does not go on to the next line.
C8_EveryErrorPropagates ==
    [][(BatchStep /\ dialect \in {"A", "B"} /\ ErrorOccurs(dialect, lines[pc], Now))
          => status' = "raised"]_vars

Count(q, v) == Cardinality({i \in 1..Len(q) : q[i] = v})
\* the step runs the `fact` line on machine m, whose Fact Set is a set
FactOnce(line, m) ==
    (StartsWithWord(line, "fact") /\ m.env["facts"].t = "set")
        => /\ Count(heap'[m.env["facts"].n], StrV(Join(Tail(line)))) = 1
           /\ Count(m.heap[m.env["facts"].n], StrV(Join(Tail(line)))) = 1
                 => heap'[m.env["facts"].n] = m.heap[m.env["facts"].n]

\* C9: a processed `fact text` line leaves exactly one entry for text in the
\* Fact Set, and leaves the Fact Set as it was when text was already in it.
C9_FactInsertIdempotent ==
    [][/\ (dialect = "C" /\ BatchStep) => FactOnce(lines[pc], Now)
       /\ (dialect = "C" /\ ReplStep) => FactOnce(Last(inputs'), Fresh)]_vars

C9_Witness ==
    /\ mode = "batch" /\ dialect = "C" /\ pc = 3
    /\ lines = << <<"fact", "sky_is_blue">>, <<"fact", "sky_is_blue">> >>
    /\ env["facts"] = SetV(1)
    /\ heap = << <<StrV("sky_is_blue")>> >>

\* C10: in dialect C the reserved entry always holds a set of strings, and
\* every text a processed `fact` line inserted is still a member of it.
C10_FactSetKept ==
    (mode = "batch" /\ dialect = "C")
        => /\ env["facts"].t = "set"
           /\ \A i \in 1..Len(heap[env["facts"].n]) : heap[env["facts"].n][i].t = "str"
           /\ \A i \in 1..(pc - 1) :
                 StartsWithWord(lines[i], "fact")
                    => Count(heap[env["facts"].n], StrV(Join(Tail(lines[i])))) = 1

\* C11: the Builtin Registry is never changed: whatever lines have been
\* processed, every registry name is bound in SAFE_GLOBALS to the function it
\* had at process start.
C11_RegistryNeverChanged ==
    \A k \in RegistryNames : k \in DOMAIN glob /\ glob[k] = BASE_BUILTINS[k]

\* the line is one name
BareName(line) == Len(line) = 1 /\ line[1] \in Idents

\* C12: a name resolves in the environment, otherwise in the Builtin Registry,
\* and nowhere else: a dialect-A line that is one name bound in neither fails
\* as an undefined name.
C12_NameOutsideRegistryUndefined ==
    [][(BatchStep /\ dialect = "A" /\ BareName(lines[pc])
        /\ lines[pc][1] \notin (DOMAIN env \cup RegistryNames))
          => (status' = "raised" /\ raised' = "RuntimeError: NameError")]_vars

\* C13: processing a dialect-B program always terminates: a `while` line
\* that exec has entered is left again (the test becomes false, an error is
\* raised or the execution is cancelled), also when its test never becomes
\* false.  Every other line is processed in one step.
C13_AlexRunTerminates ==
    (mode = "batch" /\ dialect = "B" /\ loop.at # "") ~> (loop.at = "")

\* the line `print dot ( LIST , LIST )`
IsDotLine(line) ==
    /\ Len(line) = 7 /\ Take(line, 3) = <<"print", "dot", "(">>
    /\ line[4] \in ListToks /\ line[5] = "," /\ line[6] \in ListToks /\ line[7] = ")"

\* C14: dot(a, b) fails when the two lists differ in length, and yields the
\* sum of the element-wise products when the lengths are equal.
C14_DotRejectsUnequalLengths ==
    [][(BatchStep /\ dialect = "A" /\ IsDotLine(lines[pc]) /\ "dot" \notin DOMAIN env
        /\ glob["dot"] = BuiltinV("dot"))
          => IF Len(ListOf(lines[pc][4])) # Len(ListOf(lines[pc][6]))
             THEN status' = "raised"
             ELSE out' = Append(out, IntV(SumProducts(ListOf(lines[pc][4]),
                                                      ListOf(lines[pc][6]))))]_vars

\* C15: two sessions share no mutable state: in dialect C a line processed
\* by the instance the REPL constructs from its environment changes neither
\* the bindings nor the Fact Set of the REPL's environment, nor the builtins.
C15_SessionsShareNothing ==
    [][(ReplStep /\ dialect = "C")
          => /\ replEnv' = replEnv
             /\ \A k \in DOMAIN replEnv :
                   replEnv[k].t = "set" => heap'[replEnv[k].n] = heap[replEnv[k].n]
             /\ \A k \in RegistryNames : glob'[k] = glob[k]]_vars

\* C16: in dialect B's last rule a line that compiles as a statement and
\* fails while it runs is not evaluated a second time: the statement error
\* is raised and the environment is as the statement left it.
C16_FailedStatementNotRetried ==
    [][(BatchStep /\ dialect = "B" /\ Otherwise(lines[pc]) /\ CompileStmt(lines[pc]).ok
        /\ exec_stmt(lines[pc], Now).x # "")
          => (status' = "raised" /\ env' = exec_stmt(lines[pc], Now).m.env)]_vars

\* C17: every key of an environment is an identifier.
C17_KeysAreIdentifiers == \A k \in DOMAIN env : k \in Idents

\* a `print expr` line / a bare-expression line of dialect d
IsPrintLine(d, line) ==
    /\ StartsWithWord(line, "print")
    /\ d \in {"A", "C"} => ~Contains(line, ":=")
IsBareLine(d, line) ==
    /\ ~Skipped(line) /\ ~StartsWithWord(line, "print")
    /\ CASE d = "A" -> ~Contains(line, ":=")
         [] d = "B" -> Otherwise(line) /\ CompileExpr(line).ok
         [] d = "C" -> ~StartsWithWord(line, "fact") /\ ~Contains(line, ":=")

\* C18: processing a `print expr` line or a bare-expression line leaves every
\* binding of the environment as it was: the names, the values bound to
\* them and the contents of the sets they hold.
C18_ExpressionLeavesEnvironment ==
    [][(BatchStep /\ (IsPrintLine(dialect, lines[pc]) \/ IsBareLine(dialect, lines[pc])))
          => /\ env' = env
             /\ \A k \in DOMAIN env :
                   env[k].t = "set" => heap'[env[k].n] = heap[env[k].n]]_vars

\* this step reads the meta line `:reset`
ResetStep ==
    /\ mode = "repl" /\ status = "running" /\ Len(inputs') = Len(inputs) + 1
    /\ StartsWithColon(Last(inputs')) /\ MetaWords(Last(inputs')) # <<>>
    /\ MetaCmd(Last(inputs')) = "reset"

\* C19: after `:reset` the REPL's environment is empty (in dialect C it holds
\* only an empty Fact Set) and no builtin changed before the reset is still
\* changed.
C19_ResetReplacesState ==
    [][ResetStep
          => /\ IF dialect = "C"
                THEN /\ DOMAIN replEnv' = {"facts"}
                     /\ replEnv'["facts"].t = "set"
                     /\ heap'[replEnv'["facts"].n] = <<>>
                ELSE replEnv' = EmptyDict
             /\ \A k \in RegistryNames : glob'[k] = BASE_BUILTINS[k]]_vars

\* C20: the REPL loop ends only on a quit command or on end of input: it is
\* never left by an exception.
C20_ReplEndsOnlyOnQuit ==
    mode = "repl" => (status \in {"running", "done"} /\ raised = "")

====
